---- MODULE Spec2Model ----
(***************************************************************************)
(* Dallas PD active-calls dashboard: the browser client.                   *)
(*                                                                         *)
(* The repository holds two versions of the client script:                 *)
(*   src/public/app.js      - consolidates unit rows into incidents        *)
(*   src/unnamed/part_000   - the per-row client (no consolidation)        *)
(* Both are modelled.  The variable `script' says which of the two the     *)
(* page loaded; it never changes after Init.                               *)
(*                                                                         *)
(* JavaScript strings are sequences of one-character strings, so that      *)
(* toLowerCase, trim, includes and join are computed and not assumed.      *)
(*                                                                         *)
(* Of the page, the model keeps what the script reads back or what the     *)
(* user can tell apart: the marker layer, the list, the counters, the      *)
(* status line, the filter controls and the refresh button.  It leaves     *)
(* out the "spinning" class, the button label, the lastUpdated text and    *)
(* the popup HTML.                                                         *)
(***************************************************************************)
EXTENDS Integers, Sequences, FiniteSets, TLC

\* ------------------------------------------------------------------ bounds

\* Longest `calls' array a snapshot carries.
MaxRows == 2

\* Longest `calls' array where requests overlap (NetSpec).
MaxNetRows == 1

\* Most fetches outstanding when the interval timer may still issue one (the
\* timer keeps firing while earlier fetches are pending; the model stops it
\* at this many).
MaxInFlight == 2

\* Most manual refreshes of app.js under way at once (follow-up timer armed
\* or follow-up fetch outstanding) when the user may still click.
MaxTimers == 1

\* ------------------------------------------------- JavaScript values

\* undefined / a field missing from the JSON row.  Not a string of
\* one-character elements, so it differs from every modelled string.
undefined == <<"undefined">>

\* null / absent coordinate.  Latitudes and longitudes lie within
\* -180..180, so this number is no coordinate.
null == 1000

\* Truthiness of a string-or-undefined value: undefined and "" are falsy.
Truthy(v) == v # undefined /\ v # <<>>

\* a || b on string-or-undefined values.
OrElse(a, b) == IF Truthy(a) THEN a ELSE b

\* Truthiness of a number-or-null value: null and 0 are falsy.
TruthyNum(n) == n # null /\ n # 0

\* Number.isFinite on a number-or-null value.
isFinite(n) == n # null

\* Character case folding, for the alphabet the inputs use.
lowerChar(c) ==
    CASE c = "A" -> "a" [] c = "B" -> "b" [] c = "C" -> "c" [] c = "D" -> "d"
      [] c = "E" -> "e" [] c = "F" -> "f" [] c = "L" -> "l" [] c = "M" -> "m"
      [] c = "O" -> "o" [] c = "K" -> "k" [] c = "Z" -> "z"
      [] OTHER -> c

\* String.prototype.toLowerCase
toLowerCase(s) == [i \in 1..Len(s) |-> lowerChar(s[i])]

\* String.prototype.trim (the only white space in the inputs is " ")
RECURSIVE trimStart(_)
trimStart(s) == IF s # <<>> /\ Head(s) = " " THEN trimStart(Tail(s)) ELSE s

RECURSIVE trimEnd(_)
trimEnd(s) ==
    IF s # <<>> /\ s[Len(s)] = " " THEN trimEnd(SubSeq(s, 1, Len(s) - 1)) ELSE s

trim(s) == trimEnd(trimStart(s))

\* String.prototype.includes
includes(s, t) ==
    \E i \in 0..(Len(s) - Len(t)) : SubSeq(s, i + 1, i + Len(t)) = t

\* Array.prototype.includes on an array of strings
arrayIncludes(arr, v) == \E i \in 1..Len(arr) : arr[i] = v

\* Array.prototype.join(" ")
RECURSIVE join(_)
join(arr) ==
    IF arr = <<>> THEN <<>>
    ELSE IF Len(arr) = 1 THEN arr[1]
    ELSE arr[1] \o <<" ">> \o join(Tail(arr))

Min(a, b) == IF a <= b THEN a ELSE b

\* The function with the empty domain: an empty Map.
EmptyMap == [k \in {} |-> 0]

\* Map.prototype.set
MapSet(m, k, v) == [x \in (DOMAIN m) \cup {k} |-> IF x = k THEN v ELSE m[x]]

\* ------------------------------------------------------- the input rows

\* CallRow values the backend is drawn to send.  Incident A1 is reported by
\* two rows whose scalar fields differ (a snapshot may also repeat a row);
\* the second has no coordinates, no division and no address.  Z0 lies on
\* latitude 0, carries no unit and has an address that hides its location.
\* The last row has an empty incidentNumber.
rowA1 ==
    [incidentNumber |-> <<"A", "1">>, unitNumber |-> <<"7">>,
     division |-> <<"C">>, lat |-> 1, lon |-> 2,
     natureOfCall |-> <<"F", "i", "r", "e">>,
     address |-> <<>>, location |-> <<"E", "l", "m">>]

rowA1b ==
    [incidentNumber |-> <<"A", "1">>, unitNumber |-> <<"8">>,
     division |-> undefined, lat |-> null, lon |-> null,
     natureOfCall |-> <<"M", "e", "l", "e", "e">>,
     address |-> undefined, location |-> undefined]

rowZ0 ==
    [incidentNumber |-> <<"Z", "0">>, unitNumber |-> <<>>,
     division |-> <<"D">>, lat |-> 0, lon |-> 2,
     natureOfCall |-> <<"F", "i", "r", "e">>,
     address |-> <<"8", " ", "O", "a", "k">>, location |-> <<"E", "l", "m">>]

rowE ==
    [incidentNumber |-> <<>>, unitNumber |-> <<"9">>,
     division |-> <<"C">>, lat |-> 3, lon |-> 4,
     natureOfCall |-> undefined,
     address |-> <<"O", "a", "k">>, location |-> undefined]

\* An incident of division D that has not been geocoded yet.
rowB2 ==
    [incidentNumber |-> <<"B", "2">>, unitNumber |-> <<"8">>,
     division |-> <<"D">>, lat |-> null, lon |-> null,
     natureOfCall |-> <<"M", "e", "l", "e", "e">>,
     address |-> undefined, location |-> <<"E", "l", "m">>]

Rows == {rowA1, rowA1b, rowZ0, rowE, rowB2}

RECURSIVE SeqsUpTo(_, _)
SeqsUpTo(S, n) ==
    IF n = 0 THEN {<<>>}
    ELSE LET shorter == SeqsUpTo(S, n - 1)
         IN  shorter \cup {Append(s, x) : s \in shorter, x \in S}

RowSeqs == SeqsUpTo(Rows, MaxRows)

\* The shorter arrays the overlapping-request specification draws from.
NetRowSeqs == SeqsUpTo(Rows, MaxNetRows)

\* ------------------------------------------- app.js: data processing

\* The base incident a first row is cloned into:
\* { ...row, units: [], unitCount: 0 }
newIncident(row) ==
    [incidentNumber |-> row.incidentNumber, unitNumber |-> row.unitNumber,
     division |-> row.division, lat |-> row.lat, lon |-> row.lon,
     natureOfCall |-> row.natureOfCall,
     address |-> row.address, location |-> row.location,
     units |-> <<>>, unitCount |-> 0]

\* Position of key `inc' in the insertion-ordered Map (0 when absent).
mapIndex(mapByInc, inc) ==
    IF \E i \in 1..Len(mapByInc) : mapByInc[i].incidentNumber = inc
    THEN CHOOSE i \in 1..Len(mapByInc) : mapByInc[i].incidentNumber = inc
    ELSE 0

\* consolidateRow with the units.includes() test dropped.
consolidateRow_dupUnits(mapByInc, row) ==
    LET inc == row.incidentNumber
        m1 == IF mapIndex(mapByInc, inc) = 0
              THEN Append(mapByInc, newIncident(row))
              ELSE mapByInc
        i == mapIndex(m1, inc)
    IN  IF Truthy(row.unitNumber)
        THEN [m1 EXCEPT ![i].units = Append(@, row.unitNumber)]
        ELSE m1

\* consolidateRow that fills in coordinates an incident lacks from a later
\* row of the incident.
consolidateRow_fillCoords(mapByInc, row) ==
    LET inc == row.incidentNumber
        m1 == IF mapIndex(mapByInc, inc) = 0
              THEN Append(mapByInc, newIncident(row))
              ELSE mapByInc
        i == mapIndex(m1, inc)
        m2 == IF m1[i].lat = null /\ m1[i].lon = null
              THEN [m1 EXCEPT ![i].lat = row.lat, ![i].lon = row.lon]
              ELSE m1
    IN  IF Truthy(row.unitNumber) /\ ~arrayIncludes(m2[i].units, row.unitNumber)
        THEN [m2 EXCEPT ![i].units = Append(@, row.unitNumber)]
        ELSE m2

\* One pass of the rows.forEach body of consolidateData.
consolidateRow(mapByInc, row) ==
    LET inc == row.incidentNumber
        m1 == IF mapIndex(mapByInc, inc) = 0
              THEN Append(mapByInc, newIncident(row))
              ELSE mapByInc
        i == mapIndex(m1, inc)
    IN  IF Truthy(row.unitNumber) /\ ~arrayIncludes(m1[i].units, row.unitNumber)
        THEN [m1 EXCEPT ![i].units = Append(@, row.unitNumber)]
        ELSE m1

\* rows.forEach: the body is applied to the rows from first to last.  The
\* array is passed through in two halves, the first half's Map being
\* computed before the second half starts, so that the recursion stays
\* shallow on snapshots of hundreds of rows.
RECURSIVE forEachRow(_, _)
forEachRow(rows, mapByInc) ==
    IF rows = <<>> THEN mapByInc
    ELSE IF Len(rows) = 1 THEN consolidateRow(mapByInc, rows[1])
    ELSE LET h == Len(rows) \div 2
         IN  CHOOSE r \in {forEachRow(SubSeq(rows, h + 1, Len(rows)), m) :
                              m \in {forEachRow(SubSeq(rows, 1, h), mapByInc)}} :
                 TRUE

\* consolidateData with the has() test dropped: every row opens an incident.
consolidateData_perRow(rows) ==
    [i \in 1..Len(rows) |->
        [newIncident(rows[i]) EXCEPT
            !.units = IF Truthy(rows[i].unitNumber)
                      THEN <<rows[i].unitNumber>> ELSE <<>>,
            !.unitCount = IF Truthy(rows[i].unitNumber) THEN 1 ELSE 0]]

consolidateData(rows) ==
    LET m == forEachRow(rows, <<>>)
    IN  [i \in 1..Len(m) |-> [m[i] EXCEPT !.unitCount = Len(m[i].units)]]

\* The predicate of getFilteredCalls (app.js), on the control values.
passesFilter(call, division, searchValue) ==
    LET search == trim(toLowerCase(searchValue))
        incident == toLowerCase(OrElse(call.incidentNumber, <<>>))
        location == toLowerCase(OrElse(OrElse(call.address, call.location), <<>>))
        nature == toLowerCase(OrElse(call.natureOfCall, <<>>))
        unitStr == toLowerCase(join(call.units))
    IN  IF division # <<"a", "l", "l">> /\ call.division # division THEN FALSE
        ELSE IF search # <<>>
                /\ ~includes(incident, search) /\ ~includes(location, search)
                /\ ~includes(nature, search) /\ ~includes(unitStr, search)
             THEN FALSE
        ELSE TRUE

\* getFilteredCalls without the trim() of the search text.
getFilteredCalls_noTrim(calls, division, searchValue) ==
    SelectSeq(calls, LAMBDA call :
        /\ (division = <<"a", "l", "l">> \/ call.division = division)
        /\ LET search == toLowerCase(searchValue)
           IN  \/ search = <<>>
               \/ includes(toLowerCase(OrElse(call.incidentNumber, <<>>)), search)
               \/ includes(toLowerCase(OrElse(OrElse(call.address, call.location), <<>>)), search)
               \/ includes(toLowerCase(OrElse(call.natureOfCall, <<>>)), search)
               \/ includes(toLowerCase(join(call.units)), search))

\* getFilteredCalls (app.js): consolidatedCalls.filter(...)
getFilteredCalls(calls, division, searchValue) ==
    SelectSeq(calls, LAMBDA call : passesFilter(call, division, searchValue))

\* getFilteredCalls (part_000): division only, on the raw rows.
legacyGetFilteredCalls(calls, divisionValue) ==
    IF divisionValue = <<"a", "l", "l">> THEN calls
    ELSE SelectSeq(calls, LAMBDA call : call.division = divisionValue)

\* ------------------------------------------------------------- state

VARIABLES
    script,             \* which client script the page runs
    allCallsRaw,        \* app.js: rows of the last processed snapshot
    consolidatedCalls,  \* app.js: one record per incident
    markersByIncident,  \* app.js: Map incidentNumber -> marker (layer index)
    firstLoad,          \* app.js: no snapshot processed yet
    allCalls,           \* part_000: rows of the last processed snapshot
    markerByIncident,   \* part_000: Map incidentNumber -> marker (layer index)
    lastFitDone,        \* part_000: the automatic fit has been done
    markerLayer,        \* the Leaflet layer group: markers in insertion order
    fitBoundsCalls,     \* map.fitBounds calls made so far
    divisionFilter,     \* #divisionFilter: the selected value
    divisionOptions,    \* #divisionFilter: the option values besides "all"
    searchInput,        \* #searchInput: the typed text
    refreshBtnDisabled, \* #refreshBtn.disabled
    statusLine,         \* #statusLine: which text it shows
    totalCalls,         \* #totalCalls
    mappedCalls,        \* #mappedCalls
    unmappedCalls,      \* #unmappedCalls
    listCount,          \* #listCount
    callList,           \* #callList: the rendered <li> items
    inflight,           \* GET /api/calls requests outstanding, in issue order
    refreshPc,          \* where the click handler of #refreshBtn stands
    timers,             \* pending setTimeout(fetchCalls, 1000) callbacks
    settled,            \* the fetch that settled last: was it stale, did it fail
    synced,             \* a 2xx response with a readable body has been processed
    focused,            \* app.js: the last focusCall: its argument and what it did
    missingCalls,       \* the body processed last had no `calls' field
    lastSnapshot        \* the rows of the last 2xx body that was processed

vars ==
    <<script, allCallsRaw, consolidatedCalls, markersByIncident, firstLoad,
      allCalls, markerByIncident, lastFitDone, markerLayer, fitBoundsCalls,
      divisionFilter, divisionOptions, searchInput, refreshBtnDisabled,
      statusLine, totalCalls, mappedCalls, unmappedCalls, listCount,
      callList, inflight, refreshPc, timers, settled, synced, focused,
      missingCalls, lastSnapshot>>

appVars == <<allCallsRaw, consolidatedCalls, markersByIncident, firstLoad>>
legacyVars == <<allCalls, markerByIncident, lastFitDone>>
statsVars == <<totalCalls, mappedCalls, unmappedCalls>>
viewVars == <<markerLayer, markersByIncident, markerByIncident, listCount, callList>>

ALL == <<"a", "l", "l">>

\* No focusCall has run yet: nothing flown to, no popup opened, no alert.
noFocus ==
    [incidentNumber |-> undefined, flyTo |-> <<>>, openPopup |-> <<>>,
     alert |-> FALSE]

\* -------------------------------------------------- the backend's answers

\* Row-level counters the backend puts into a snapshot.
backendCounts(rows) ==
    LET mapped == Len(SelectSeq(rows, LAMBDA r : r.lat # null /\ r.lon # null))
    IN  [totalCalls |-> Len(rows), mappedCalls |-> mapped,
         unmappedCalls |-> Len(rows) - mapped]

\* A snapshot body with a calls array.
snapshot(rows, withError) ==
    [hasCalls |-> TRUE, calls |-> rows, error |-> withError,
     totalCalls |-> backendCounts(rows).totalCalls,
     mappedCalls |-> backendCounts(rows).mappedCalls,
     unmappedCalls |-> backendCounts(rows).unmappedCalls]

\* A JSON body without calls and without counters, e.g. {"error": "..."}.
bareBody(withError) ==
    [hasCalls |-> FALSE, calls |-> <<>>, error |-> withError,
     totalCalls |-> null, mappedCalls |-> null, unmappedCalls |-> null]

\* The bodies drawn: every row sequence without an error field, the
\* sequences of at most one row also with one, and the bodies without calls.
bodiesOf(rowSeqs) ==
    {snapshot(rows, FALSE) : rows \in rowSeqs}
        \cup {snapshot(rows, TRUE) : rows \in {r \in rowSeqs : Len(r) <= 1}}
        \cup {bareBody(e) : e \in BOOLEAN}

\* What a GET /api/calls can come back with: the request is rejected (network
\* error), or a response arrives with a 2xx or other status (ok) whose body
\* parses as JSON (json) or does not.  The non-2xx responses drawn carry a
\* body without calls.
responsesOf(rowSeqs) ==
    {[kind |-> "reject", ok |-> FALSE, data |-> bareBody(FALSE)]}
        \cup {[kind |-> "unreadable", ok |-> b, data |-> bareBody(FALSE)] :
                 b \in BOOLEAN}
        \cup {[kind |-> "json", ok |-> TRUE, data |-> d] : d \in bodiesOf(rowSeqs)}
        \cup {[kind |-> "json", ok |-> FALSE, data |-> bareBody(e)] :
                 e \in BOOLEAN}

Responses == responsesOf(RowSeqs)

NetResponses == responsesOf(NetRowSeqs)

\* ----------------------------------------------- app.js: the renderers

\* List cap of renderList: calls.slice(0, 100)
LIST_CAP == 100

\* renderList without the slice(0, 100).
renderList_noSlice(calls) ==
    /\ listCount' = Len(calls)
    /\ callList' =
           IF Len(calls) = 0
           THEN <<[kind |-> "placeholder", incidentNumber |-> <<>>, mapped |-> FALSE]>>
           ELSE [i \in 1..Len(calls) |->
                    [kind |-> "item", incidentNumber |-> calls[i].incidentNumber,
                     mapped |-> TruthyNum(calls[i].lat) /\ TruthyNum(calls[i].lon)]]

\* L.circleMarker([call.lat, call.lon], ...).bindPopup(...)
circleMarker(call) ==
    [latlng |-> <<call.lat, call.lon>>, popup |-> call.incidentNumber]

\* mapped.forEach(call => { markerLayer.addLayer(marker);
\*                          markersByIncident.set(call.incidentNumber, marker) })
\* on a layer that already holds `base' markers.
RECURSIVE setMarkers(_, _, _, _)
setMarkers(table, mapped, base, i) ==
    IF i > Len(mapped) THEN table
    ELSE setMarkers(MapSet(table, mapped[i].incidentNumber, base + i),
                    mapped, base, i + 1)

\* updateMarkers without clearLayers() / clear(): the old markers stay.
updateMarkers_noClear(visibleCalls) ==
    LET mapped == SelectSeq(visibleCalls,
                            LAMBDA c : c.lat # null /\ c.lon # null)
    IN  /\ markerLayer' =
               markerLayer \o [i \in 1..Len(mapped) |-> circleMarker(mapped[i])]
        /\ markersByIncident' =
               setMarkers(markersByIncident, mapped, Len(markerLayer), 1)

updateMarkers(visibleCalls) ==
    LET mapped == SelectSeq(visibleCalls,
                            LAMBDA c : c.lat # null /\ c.lon # null)
    IN  /\ markerLayer' = [i \in 1..Len(mapped) |-> circleMarker(mapped[i])]
        /\ markersByIncident' = setMarkers(EmptyMap, mapped, 0, 1)

placeholderItem == [kind |-> "placeholder", incidentNumber |-> <<>>, mapped |-> FALSE]

\* One <li> of renderList: the incident it focuses and its mapped icon.
listItem(call) ==
    [kind |-> "item", incidentNumber |-> call.incidentNumber,
     mapped |-> TruthyNum(call.lat) /\ TruthyNum(call.lon)]

renderList(calls) ==
    /\ listCount' = Len(calls)
    /\ callList' =
           IF Len(calls) = 0 THEN <<placeholderItem>>
           ELSE [i \in 1..Min(Len(calls), LIST_CAP) |-> listItem(calls[i])]

updateStats(data, callsPerIncident) ==
    LET mappedCount ==
            Len(SelectSeq(callsPerIncident,
                          LAMBDA c : TruthyNum(c.lat) /\ TruthyNum(c.lon)))
    IN  /\ totalCalls' = Len(callsPerIncident)
        /\ mappedCalls' = mappedCount
        /\ unmappedCalls' = Len(callsPerIncident) - mappedCount
        /\ statusLine' = IF data.error THEN "Error" ELSE "System Operational"

\* The distinct truthy division values of a list of records.
divisionsOf(calls) ==
    {calls[i].division : i \in {j \in 1..Len(calls) : Truthy(calls[j].division)}}

\* syncDivisions: the options are rebuilt (the selection falls back to the
\* first option, "all") and the old selection is restored when still offered.
\* The options are kept as a set: their sorted order is not modelled.
syncDivisions(calls) ==
    /\ divisionOptions' = divisionsOf(calls)
    /\ divisionFilter' =
           IF divisionFilter \in divisionsOf(calls) THEN divisionFilter ELSE ALL

\* render() that leaves the markers as they are.
render_listOnly(calls, division, searchValue) ==
    /\ renderList(getFilteredCalls(calls, division, searchValue))
    /\ UNCHANGED <<markerLayer, markersByIncident>>

\* render() of app.js, on the values the controls hold when it runs.
render(calls, division, searchValue) ==
    LET filtered == getFilteredCalls(calls, division, searchValue)
    IN  /\ updateMarkers(filtered)
        /\ renderList(filtered)

\* map.fitBounds is called once more; the count is kept up to MaxFitLog.
MaxFitLog == 2

fitBounds == fitBoundsCalls' = Min(fitBoundsCalls + 1, MaxFitLog)

\* --------------------------------------------- part_000: the renderers

\* List cap of renderCallList: calls.slice(0, 250)
LEGACY_LIST_CAP == 250

\* clearAndRenderMarkers: clear, one upsertMarker per finite-coordinate
\* row, then the one-time fit.
clearAndRenderMarkers(calls) ==
    LET mappedRows == SelectSeq(calls,
                                LAMBDA call : isFinite(call.lat) /\ isFinite(call.lon))
    IN  /\ markerLayer' = [i \in 1..Len(mappedRows) |-> circleMarker(mappedRows[i])]
        /\ markerByIncident' = setMarkers(EmptyMap, mappedRows, 0, 1)
        /\ IF ~lastFitDone /\ Len(mappedRows) > 0
           THEN fitBounds /\ lastFitDone' = TRUE
           ELSE UNCHANGED <<fitBoundsCalls, lastFitDone>>

\* One <li> of renderCallList.
legacyListItem(call) ==
    [kind |-> "item", incidentNumber |-> call.incidentNumber,
     mapped |-> isFinite(call.lat) /\ isFinite(call.lon)]

renderCallList(calls) ==
    callList' =
        IF Len(calls) = 0 THEN <<placeholderItem>>
        ELSE [i \in 1..Min(Len(calls), LEGACY_LIST_CAP) |-> legacyListItem(calls[i])]

\* syncDivisionFilter: as syncDivisions, with an explicit fall back to "all".
syncDivisionFilter(calls) ==
    LET current == OrElse(divisionFilter, ALL)
    IN  /\ divisionOptions' = divisionsOf(calls)
        /\ divisionFilter' =
               IF current \in divisionsOf(calls) THEN current ELSE ALL

\* updateStatus: the counters are the snapshot's own (x ?? 0).
updateStatus(data) ==
    /\ totalCalls' = IF data.totalCalls = null THEN 0 ELSE data.totalCalls
    /\ mappedCalls' = IF data.mappedCalls = null THEN 0 ELSE data.mappedCalls
    /\ unmappedCalls' = IF data.unmappedCalls = null THEN 0 ELSE data.unmappedCalls
    /\ statusLine' = IF data.error THEN "Updated | error" ELSE "Updated"

\* render() of part_000
legacyRender(calls, divisionValue) ==
    LET filtered == legacyGetFilteredCalls(calls, divisionValue)
    IN  /\ clearAndRenderMarkers(filtered)
        /\ renderCallList(filtered)

\* --------------------------------------------------------- the network

\* Outstanding GET /api/calls requests issued by `owner': "poll" (boot and
\* the interval timer) or "manual" (the refresh button's follow-up).
pending(owner) ==
    Cardinality({i \in 1..Len(inflight) : inflight[i].owner = owner})

\* A fetch of the calls endpoint is issued.
issue(owner) ==
    inflight' = Append(inflight, [owner |-> owner, stale |-> FALSE])

\* The i-th outstanding request settles.  When it brought a 2xx response
\* that was applied to the client state, every request issued before it and
\* still outstanding is from then on stale.
settle(i, applied, failure) ==
    /\ inflight' =
           [j \in 1..(Len(inflight) - 1) |->
               IF j < i
               THEN [inflight[j] EXCEPT !.stale = @ \/ (applied /\ ~failure)]
               ELSE inflight[j + 1]]
    /\ settled' = [stale |-> inflight[i].stale, failure |-> failure]

\* What the user can type into the search box.
SearchTexts ==
    {<<>>, <<" ", "E", "L", " ">>, <<"7", " ", "8">>, <<"Z">>}

\* ---------------------------------------------------------------- Init

\* The state once the script has run to its end: the map is set up, the
\* first fetch is outstanding and the interval timer is armed.
Init ==
    /\ script \in {"app", "legacy"}
    /\ allCallsRaw = <<>>
    /\ consolidatedCalls = <<>>
    /\ markersByIncident = EmptyMap
    /\ firstLoad = TRUE
    /\ allCalls = <<>>
    /\ markerByIncident = EmptyMap
    /\ lastFitDone = FALSE
    /\ markerLayer = <<>>
    /\ fitBoundsCalls = 0
    /\ divisionFilter = ALL
    /\ divisionOptions = {}
    /\ searchInput = <<>>
    /\ refreshBtnDisabled = FALSE
    /\ statusLine = "initial"
    /\ totalCalls = null
    /\ mappedCalls = null
    /\ unmappedCalls = null
    /\ listCount = null
    /\ callList = <<>>
    /\ inflight = <<[owner |-> "poll", stale |-> FALSE]>>
    /\ refreshPc = "idle"
    /\ timers = 0
    /\ settled = [stale |-> FALSE, failure |-> FALSE]
    /\ synced = FALSE
    /\ focused = noFocus
    /\ missingCalls = FALSE
    /\ lastSnapshot = <<>>

\* ------------------------------------------------------ app.js: actions

\* fetchCalls up to its first await: the request leaves.
fetchCallsStart(owner) == issue(owner)

\* setInterval(fetchCalls, POLL_INTERVAL_MS) fires.
intervalFetchCalls ==
    /\ script = "app"
    /\ Len(inflight) < MaxInFlight
    /\ fetchCallsStart("poll")
    /\ UNCHANGED <<script, focused, missingCalls, lastSnapshot, appVars, legacyVars, statsVars, viewVars,
                   fitBoundsCalls, divisionFilter, divisionOptions, searchInput,
                   refreshBtnDisabled, statusLine, refreshPc, timers, settled, synced>>

\* fetchCalls that keeps the rows it holds when the body has no `calls'.
fetchCallsLoaded_keepsRows(i, resp) ==
    /\ script = "app"
    /\ i \in 1..Len(inflight)
    /\ resp.kind = "json"
    /\ LET data == resp.data
           rows == IF data.hasCalls THEN data.calls ELSE allCallsRaw
           calls == consolidateData(rows)
           mapped == SelectSeq(calls,
                               LAMBDA c : TruthyNum(c.lat) /\ TruthyNum(c.lon))
       IN  /\ allCallsRaw' = rows
           /\ consolidatedCalls' = calls
           /\ updateStats(data, calls)
           /\ IF firstLoad
              THEN /\ syncDivisions(calls)
                   /\ firstLoad' = FALSE
                   /\ IF Len(mapped) > 0 THEN fitBounds
                                         ELSE UNCHANGED fitBoundsCalls
              ELSE UNCHANGED <<divisionFilter, divisionOptions, firstLoad,
                               fitBoundsCalls>>
           /\ render(calls, divisionFilter', searchInput)
    /\ settle(i, TRUE, ~resp.ok)
    /\ synced' = (synced \/ resp.ok)
    /\ missingCalls' = ~resp.data.hasCalls
    /\ lastSnapshot' = IF resp.ok THEN resp.data.calls ELSE lastSnapshot
    /\ UNCHANGED <<script, focused, legacyVars, searchInput, refreshBtnDisabled,
                   refreshPc, timers>>

\* fetchCalls after `await res.json()': the try block runs to its end, then
\* the finally block.  The HTTP status is not looked at.
fetchCallsLoaded(i, resp) ==
    /\ script = "app"
    /\ i \in 1..Len(inflight)
    /\ resp.kind = "json"
    /\ LET data == resp.data
           rows == IF data.hasCalls THEN data.calls ELSE <<>>
           calls == consolidateData(rows)
           mapped == SelectSeq(calls,
                               LAMBDA c : TruthyNum(c.lat) /\ TruthyNum(c.lon))
       IN  /\ allCallsRaw' = rows
           /\ consolidatedCalls' = calls
           /\ updateStats(data, calls)
           /\ IF firstLoad
              THEN /\ syncDivisions(calls)
                   /\ firstLoad' = FALSE
                   /\ IF Len(mapped) > 0 THEN fitBounds
                                         ELSE UNCHANGED fitBoundsCalls
              ELSE UNCHANGED <<divisionFilter, divisionOptions, firstLoad,
                               fitBoundsCalls>>
           /\ render(calls, divisionFilter', searchInput)
    /\ settle(i, TRUE, ~resp.ok)
    /\ synced' = (synced \/ resp.ok)
    /\ missingCalls' = ~resp.data.hasCalls
    /\ lastSnapshot' = IF resp.ok THEN resp.data.calls ELSE lastSnapshot
    /\ UNCHANGED <<script, focused, legacyVars, searchInput, refreshBtnDisabled,
                   refreshPc, timers>>

\* fetchCalls when fetch() or res.json() rejects: catch, then finally.
fetchCallsFailed(i, resp) ==
    /\ script = "app"
    /\ i \in 1..Len(inflight)
    /\ resp.kind \in {"reject", "unreadable"}
    /\ statusLine' = "Connection Lost"
    /\ settle(i, FALSE, TRUE)
    /\ UNCHANGED synced
    /\ UNCHANGED <<script, focused, missingCalls, lastSnapshot, appVars, legacyVars, statsVars, viewVars,
                   fitBoundsCalls, divisionFilter, divisionOptions, searchInput,
                   refreshBtnDisabled, refreshPc, timers>>

\* triggerRefresh up to `await fetch(API_REFRESH_URL)'.  A disabled button
\* takes no click.
triggerRefresh ==
    /\ script = "app"
    /\ ~refreshBtnDisabled
    /\ timers + pending("manual") < MaxTimers
    /\ refreshBtnDisabled' = TRUE
    /\ statusLine' = "Requesting update"
    /\ refreshPc' = "awaitRefresh"
    /\ UNCHANGED <<script, focused, missingCalls, lastSnapshot, appVars, legacyVars, statsVars, viewVars,
                   fitBoundsCalls, divisionFilter, divisionOptions, searchInput,
                   inflight, timers, settled, synced>>

\* triggerRefresh whose failure path never reaches the re-enabling step.
triggerRefreshRejected_noFinally ==
    /\ script = "app"
    /\ refreshPc = "awaitRefresh"
    /\ refreshPc' = "idle"
    /\ UNCHANGED <<script, focused, missingCalls, lastSnapshot, appVars, legacyVars, statsVars, viewVars,
                   fitBoundsCalls, divisionFilter, divisionOptions, searchInput,
                   statusLine, inflight, timers, settled, synced,
                   refreshBtnDisabled>>

\* The refresh request resolves (any HTTP status): the follow-up fetch is
\* scheduled and the finally block re-enables the button at once.
triggerRefreshResolved ==
    /\ script = "app"
    /\ refreshPc = "awaitRefresh"
    /\ timers' = timers + 1
    /\ refreshBtnDisabled' = FALSE
    /\ refreshPc' = "idle"
    /\ UNCHANGED <<script, focused, missingCalls, lastSnapshot, appVars, legacyVars, statsVars, viewVars,
                   fitBoundsCalls, divisionFilter, divisionOptions, searchInput,
                   statusLine, inflight, settled, synced>>

\* The refresh request is rejected: catch (log), then finally.
triggerRefreshRejected ==
    /\ script = "app"
    /\ refreshPc = "awaitRefresh"
    /\ refreshBtnDisabled' = FALSE
    /\ refreshPc' = "idle"
    /\ UNCHANGED <<script, focused, missingCalls, lastSnapshot, appVars, legacyVars, statsVars, viewVars,
                   fitBoundsCalls, divisionFilter, divisionOptions, searchInput,
                   statusLine, inflight, timers, settled, synced>>

\* setTimeout(fetchCalls, 1000) fires.
timeoutFetchCalls ==
    /\ script = "app"
    /\ timers > 0
    /\ timers' = timers - 1
    /\ fetchCallsStart("manual")
    /\ UNCHANGED <<script, focused, missingCalls, lastSnapshot, appVars, legacyVars, statsVars, viewVars,
                   fitBoundsCalls, divisionFilter, divisionOptions, searchInput,
                   refreshBtnDisabled, statusLine, refreshPc, settled, synced>>

\* The user picks another division: the change listener runs render.
divisionChange(d) ==
    /\ script = "app"
    /\ d \in divisionOptions \cup {ALL}
    /\ d # divisionFilter
    /\ divisionFilter' = d
    /\ render(consolidatedCalls, d, searchInput)
    /\ UNCHANGED <<script, focused, missingCalls, lastSnapshot, allCallsRaw, consolidatedCalls, firstLoad, legacyVars,
                   statsVars, fitBoundsCalls, divisionOptions, searchInput,
                   refreshBtnDisabled, statusLine, inflight, refreshPc,
                   timers, settled, synced>>

\* The user edits the search text: the input listener runs render.
searchInputEvent(text) ==
    /\ script = "app"
    /\ text # searchInput
    /\ searchInput' = text
    /\ render(consolidatedCalls, divisionFilter, text)
    /\ UNCHANGED <<script, focused, missingCalls, lastSnapshot, allCallsRaw, consolidatedCalls, firstLoad, legacyVars,
                   statsVars, fitBoundsCalls, divisionFilter, divisionOptions,
                   refreshBtnDisabled, statusLine, inflight, refreshPc,
                   timers, settled, synced>>

\* What focusCall can be called with: the numbers the list items carry in
\* their onclick attribute, and a number no incident has (focusCall is a
\* property of window).
FocusArgs == {rowA1.incidentNumber, rowZ0.incidentNumber,
              rowB2.incidentNumber, rowE.incidentNumber, <<"X", "9">>}

\* consolidatedCalls.find(c => c.incidentNumber === incidentNumber): the
\* position of the first match, 0 when there is none.
find(calls, incidentNumber) ==
    IF \E i \in 1..Len(calls) : calls[i].incidentNumber = incidentNumber
    THEN CHOOSE i \in 1..Len(calls) :
             /\ calls[i].incidentNumber = incidentNumber
             /\ \A j \in 1..(i - 1) : calls[j].incidentNumber # incidentNumber
    ELSE 0

\* window.focusCall: a list item is clicked, or the function is called.
focusCall(incidentNumber) ==
    /\ script = "app"
    /\ LET at == find(consolidatedCalls, incidentNumber)
           call == consolidatedCalls[at]
       IN  focused' =
               IF at = 0
               THEN [incidentNumber |-> incidentNumber, flyTo |-> <<>>,
                     openPopup |-> <<>>, alert |-> FALSE]
               ELSE IF TruthyNum(call.lat) /\ TruthyNum(call.lon)
               THEN [incidentNumber |-> incidentNumber,
                     flyTo |-> <<call.lat, call.lon>>,
                     openPopup |->
                         IF incidentNumber \in DOMAIN markersByIncident
                         THEN <<markerLayer[markersByIncident[incidentNumber]]>>
                         ELSE <<>>,
                     alert |-> FALSE]
               ELSE [incidentNumber |-> incidentNumber, flyTo |-> <<>>,
                     openPopup |-> <<>>, alert |-> TRUE]
    /\ UNCHANGED <<script, missingCalls, lastSnapshot, appVars, legacyVars,
                   statsVars, markerLayer, listCount, callList, fitBoundsCalls,
                   divisionFilter, divisionOptions, searchInput,
                   refreshBtnDisabled, statusLine, inflight, refreshPc, timers,
                   settled, synced>>

\* ---------------------------------------------------- part_000: actions

\* setInterval(pullLatest, POLL_INTERVAL_MS) fires: pullLatest runs up to
\* the await of fetch() inside fetchCalls.
intervalPullLatest ==
    /\ script = "legacy"
    /\ Len(inflight) < MaxInFlight
    /\ issue("poll")
    /\ UNCHANGED <<script, focused, missingCalls, lastSnapshot, appVars, legacyVars, statsVars, viewVars,
                   fitBoundsCalls, divisionFilter, divisionOptions, searchInput,
                   refreshBtnDisabled, statusLine, refreshPc, timers,
                   settled, synced>>

\* fetchCalls of part_000 returns the parsed body only for a 2xx response
\* with a readable body; it throws otherwise.
legacyFetchCallsReturns(resp) == resp.kind = "json" /\ resp.ok

\* The finally block of triggerServerRefresh, reached when the pullLatest it
\* awaits is done.
refreshFinally(owner) ==
    IF owner = "manual"
    THEN refreshBtnDisabled' = FALSE /\ refreshPc' = "idle"
    ELSE UNCHANGED <<refreshBtnDisabled, refreshPc>>

\* pullLatest after `await fetchCalls()' returned data.
pullLatestLoaded(i, resp) ==
    /\ script = "legacy"
    /\ i \in 1..Len(inflight)
    /\ legacyFetchCallsReturns(resp)
    /\ LET data == resp.data
           rows == IF data.hasCalls THEN data.calls ELSE <<>>
       IN  /\ allCalls' = rows
           /\ syncDivisionFilter(rows)
           /\ updateStatus(data)
           /\ legacyRender(rows, divisionFilter')
    /\ refreshFinally(inflight[i].owner)
    /\ settle(i, TRUE, FALSE)
    /\ synced' = TRUE
    /\ missingCalls' = ~resp.data.hasCalls
    /\ lastSnapshot' = resp.data.calls
    /\ UNCHANGED <<script, focused, appVars, searchInput, listCount, timers>>

\* pullLatest when fetchCalls threw: the catch block writes the status line.
pullLatestFailed(i, resp) ==
    /\ script = "legacy"
    /\ i \in 1..Len(inflight)
    /\ ~legacyFetchCallsReturns(resp)
    /\ statusLine' = "Unable to load active calls"
    /\ refreshFinally(inflight[i].owner)
    /\ settle(i, FALSE, TRUE)
    /\ UNCHANGED synced
    /\ UNCHANGED <<script, focused, missingCalls, lastSnapshot, appVars, legacyVars, statsVars, viewVars,
                   fitBoundsCalls, divisionFilter, divisionOptions, searchInput,
                   timers>>

\* triggerServerRefresh up to `await fetch(API_REFRESH_URL)'.
triggerServerRefresh ==
    /\ script = "legacy"
    /\ ~refreshBtnDisabled
    /\ refreshBtnDisabled' = TRUE
    /\ refreshPc' = "awaitRefresh"
    /\ UNCHANGED <<script, focused, missingCalls, lastSnapshot, appVars, legacyVars, statsVars, viewVars,
                   fitBoundsCalls, divisionFilter, divisionOptions, searchInput,
                   statusLine, inflight, timers, settled, synced>>

\* The refresh request resolves: sleep(350) starts.
triggerServerRefreshResolved ==
    /\ script = "legacy"
    /\ refreshPc = "awaitRefresh"
    /\ refreshPc' = "sleep"
    /\ UNCHANGED <<script, focused, missingCalls, lastSnapshot, appVars, legacyVars, statsVars, viewVars,
                   fitBoundsCalls, divisionFilter, divisionOptions, searchInput,
                   refreshBtnDisabled, statusLine, inflight, timers,
                   settled, synced>>

\* The refresh request is rejected: the finally block runs and the
\* rejection leaves the handler.
triggerServerRefreshRejected ==
    /\ script = "legacy"
    /\ refreshPc = "awaitRefresh"
    /\ refreshBtnDisabled' = FALSE
    /\ refreshPc' = "idle"
    /\ UNCHANGED <<script, focused, missingCalls, lastSnapshot, appVars, legacyVars, statsVars, viewVars,
                   fitBoundsCalls, divisionFilter, divisionOptions, searchInput,
                   statusLine, inflight, timers, settled, synced>>

\* sleep(350) is over: `await pullLatest()' issues its fetch.
sleepElapsed ==
    /\ script = "legacy"
    /\ refreshPc = "sleep"
    /\ refreshPc' = "awaitPull"
    /\ issue("manual")
    /\ UNCHANGED <<script, focused, missingCalls, lastSnapshot, appVars, legacyVars, statsVars, viewVars,
                   fitBoundsCalls, divisionFilter, divisionOptions, searchInput,
                   refreshBtnDisabled, statusLine, timers, settled, synced>>

\* The user picks another division: the change listener runs render.
legacyDivisionChange(d) ==
    /\ script = "legacy"
    /\ d \in divisionOptions \cup {ALL}
    /\ d # divisionFilter
    /\ divisionFilter' = d
    /\ legacyRender(allCalls, d)
    /\ UNCHANGED <<script, focused, missingCalls, lastSnapshot, appVars, allCalls, statsVars, listCount,
                   divisionOptions, searchInput, refreshBtnDisabled, statusLine, inflight, refreshPc, timers, settled, synced>>

\* ------------------------------------------------------ specification

\* Requests one at a time (the interval timer fires only when no fetch is
\* outstanding), every snapshot, every filter change.
Next ==
    \/ inflight = <<>> /\ intervalFetchCalls
    \/ \E resp \in Responses : fetchCallsLoaded(1, resp)
    \/ \E resp \in Responses : fetchCallsFailed(1, resp)
    \/ \E d \in divisionOptions \cup {ALL} : divisionChange(d)
    \/ \E text \in SearchTexts : searchInputEvent(text)
    \/ inflight = <<>> /\ intervalPullLatest
    \/ \E resp \in Responses : pullLatestLoaded(1, resp)
    \/ \E resp \in Responses : pullLatestFailed(1, resp)
    \/ \E d \in divisionOptions \cup {ALL} : legacyDivisionChange(d)

Spec == Init /\ [][Next]_vars

\* Snapshots longer than the list caps.  List caps of the two scripts are
\* LIST_CAP and LEGACY_LIST_CAP; the snapshots drawn have up to MaxOver rows
\* more than a cap.
MaxOver == 1

digitChar(d) ==
    CASE d = 0 -> "0" [] d = 1 -> "1" [] d = 2 -> "2" [] d = 3 -> "3"
      [] d = 4 -> "4" [] d = 5 -> "5" [] d = 6 -> "6" [] d = 7 -> "7"
      [] d = 8 -> "8" [] OTHER -> "9"

\* The i-th row of a long snapshot: incident number "N" and three digits,
\* divisions alternating, not geocoded yet.
longRow(i) ==
    [incidentNumber |-> <<"N", digitChar((i \div 100) % 10),
                          digitChar((i \div 10) % 10), digitChar(i % 10)>>,
     unitNumber |-> <<"7">>,
     division |-> IF i % 2 = 1 THEN <<"C">> ELSE <<"D">>,
     lat |-> null, lon |-> null,
     natureOfCall |-> <<"F", "i", "r", "e">>,
     address |-> <<>>, location |-> <<"E", "l", "m">>]

longRows(n) == [i \in 1..n |-> longRow(i)]

ListLens ==
    {0, 1} \cup {LIST_CAP + k : k \in 0..MaxOver}
           \cup {LEGACY_LIST_CAP + k : k \in 0..MaxOver}

ListResponses ==
    {[kind |-> "reject", ok |-> FALSE, data |-> bareBody(FALSE)]}
        \cup {[kind |-> "json", ok |-> TRUE, data |-> snapshot(longRows(n), FALSE)] :
                 n \in ListLens}

\* Requests one at a time, long snapshots, every filter change.
ListNext ==
    \/ inflight = <<>> /\ intervalFetchCalls
    \/ \E resp \in ListResponses : fetchCallsLoaded(1, resp)
    \/ \E resp \in ListResponses : fetchCallsFailed(1, resp)
    \/ \E d \in divisionOptions \cup {ALL} : divisionChange(d)
    \/ \E text \in SearchTexts : searchInputEvent(text)
    \/ inflight = <<>> /\ intervalPullLatest
    \/ \E resp \in ListResponses : pullLatestLoaded(1, resp)
    \/ \E resp \in ListResponses : pullLatestFailed(1, resp)
    \/ \E d \in divisionOptions \cup {ALL} : legacyDivisionChange(d)

ListSpec == Init /\ [][ListNext]_vars

\* app.js with its list items clicked: requests one at a time, the shorter
\* snapshots, every filter change and every focusCall.
FocusInit == Init /\ script = "app"

FocusNext ==
    \/ inflight = <<>> /\ intervalFetchCalls
    \/ \E resp \in NetResponses : fetchCallsLoaded(1, resp)
    \/ \E resp \in NetResponses : fetchCallsFailed(1, resp)
    \/ \E d \in divisionOptions \cup {ALL} : divisionChange(d)
    \/ \E text \in SearchTexts : searchInputEvent(text)
    \/ \E incidentNumber \in FocusArgs : focusCall(incidentNumber)

FocusSpec == FocusInit /\ [][FocusNext]_vars

\* Overlapping requests and the manual refresh, on the shorter snapshots.
NetNext ==
    \/ intervalFetchCalls
    \/ \E i \in 1..Len(inflight), resp \in NetResponses : fetchCallsLoaded(i, resp)
    \/ \E i \in 1..Len(inflight), resp \in NetResponses : fetchCallsFailed(i, resp)
    \/ triggerRefresh
    \/ triggerRefreshResolved
    \/ triggerRefreshRejected
    \/ timeoutFetchCalls
    \/ intervalPullLatest
    \/ \E i \in 1..Len(inflight), resp \in NetResponses : pullLatestLoaded(i, resp)
    \/ \E i \in 1..Len(inflight), resp \in NetResponses : pullLatestFailed(i, resp)
    \/ triggerServerRefresh
    \/ triggerServerRefreshResolved
    \/ triggerServerRefreshRejected
    \/ sleepElapsed

NetSpec == Init /\ [][NetNext]_vars

\* Fairness for the manual refresh: a request to the refresh endpoint is
\* eventually answered or fails, an armed timer eventually fires, and the
\* fetch that part_000's handler awaits eventually settles.
manualPullSettles ==
    \E i \in 1..Len(inflight), resp \in NetResponses :
        /\ inflight[i].owner = "manual"
        /\ (pullLatestLoaded(i, resp) \/ pullLatestFailed(i, resp))

FairNetSpec ==
    /\ NetSpec
    /\ WF_vars(triggerRefreshResolved \/ triggerRefreshRejected)
    /\ WF_vars(triggerServerRefreshResolved \/ triggerServerRefreshRejected)
    /\ WF_vars(sleepElapsed)
    /\ WF_vars(manualPullSettles)

\* ------------------------------------------------- what the claims speak of

\* The records the page holds: incidents (app.js) or rows (part_000).
Held == IF script = "app" THEN consolidatedCalls ELSE allCalls

\* The incident-to-marker lookup table of the running script.
Table == IF script = "app" THEN markersByIncident ELSE markerByIncident

\* A string field that may be absent, as text.
Text(v) == IF v = undefined THEN <<>> ELSE v

\* The resolved location of a record: its address, else its location.
Resolved(r) == IF Truthy(r.address) THEN Text(r.address) ELSE Text(r.location)

HasCoordinates(r) == r.lat # null /\ r.lon # null

\* The two filter predicates as section 4.2 of the specification words them.
DivisionPasses(r, division) == division = ALL \/ r.division = division

SearchPasses(r, text) ==
    LET t == trim(toLowerCase(text))
    IN  \/ t = <<>>
        \/ \E field \in {toLowerCase(Text(r.incidentNumber)),
                         toLowerCase(Resolved(r)),
                         toLowerCase(Text(r.natureOfCall)),
                         toLowerCase(join(r.units))} : includes(field, t)

Passes(r) == DivisionPasses(r, divisionFilter) /\ SearchPasses(r, searchInput)

\* The filtered set the claims call visible.
Visible == SelectSeq(Held, Passes)

VisibleMappedKeys ==
    {Visible[i].incidentNumber :
        i \in {j \in 1..Len(Visible) : HasCoordinates(Visible[j])}}

\* A fetch settles in this step.
FetchSettles == Len(inflight') < Len(inflight)

\* The refresh button's request-and-settle sequence is under way: the
\* refresh request, the settle delay or the follow-up fetch.
RefreshUnderWay ==
    refreshPc # "idle" \/ timers > 0 \/ pending("manual") > 0

\* ---------------------------------------------------------------- claims

\* C1: a response to an earlier request that arrives after the response to
\* a later request has been processed never replaces the client state: the
\* held records, the markers and the list stay those of the later response.
C1_StaleResponseNeverReplaces ==
    [][(FetchSettles /\ settled'.stale) =>
          UNCHANGED <<allCallsRaw, consolidatedCalls, allCalls, markerLayer,
                      markersByIncident, markerByIncident, callList>>]_vars

\* C2: after a successful fetch, a fetch that fails (network error, non-2xx
\* status or unreadable body) leaves the held records, the marker layer,
\* the lookup table and the list exactly as they were.
C2_FailedFetchKeepsState ==
    [][(synced /\ FetchSettles /\ settled'.failure) =>
          UNCHANGED <<allCallsRaw, consolidatedCalls, allCalls, markerLayer,
                      markersByIncident, markerByIncident, listCount,
                      callList>>]_vars

\* C3: the lookup table has an entry for exactly the visible records that
\* have both coordinates, each entry is the layer's marker of that
\* incident, and the layer holds no marker of any other incident.
C3_TableIsVisibleMapped ==
    /\ DOMAIN Table = VisibleMappedKeys
    /\ \A k \in DOMAIN Table :
           /\ Table[k] \in 1..Len(markerLayer)
           /\ markerLayer[Table[k]].popup = k
    /\ \A i \in 1..Len(markerLayer) : markerLayer[i].popup \in VisibleMappedKeys

\* C3 witness: markers exist while a held record with coordinates is
\* filtered out, so its marker had to go.
C3_Witness ==
    /\ DOMAIN Table # {}
    /\ \E i \in 1..Len(Held) : HasCoordinates(Held[i]) /\ ~Passes(Held[i])

\* The non-empty incident numbers of a row sequence.
NumbersOf(rows) ==
    {rows[i].incidentNumber :
        i \in {j \in 1..Len(rows) : Truthy(rows[j].incidentNumber)}}

\* Where a number first appears in a row sequence.
FirstAppearance(rows, n) ==
    CHOOSE i \in 1..Len(rows) :
        /\ rows[i].incidentNumber = n
        /\ \A j \in 1..(i - 1) : rows[j].incidentNumber # n

\* C4: the consolidated set has exactly one incident for each distinct
\* non-empty incidentNumber of the rows, none for a number the rows do not
\* have, and the incidents stand in the order of first appearance.
C4_OneIncidentPerNumberInOrder ==
    script = "app" =>
        /\ \A n \in NumbersOf(allCallsRaw) :
               Cardinality({i \in 1..Len(consolidatedCalls) :
                               consolidatedCalls[i].incidentNumber = n}) = 1
        /\ \A i \in 1..Len(consolidatedCalls) :
               Truthy(consolidatedCalls[i].incidentNumber) =>
                   consolidatedCalls[i].incidentNumber \in NumbersOf(allCallsRaw)
        /\ \A i, j \in 1..Len(consolidatedCalls) :
               (/\ i < j
                /\ Truthy(consolidatedCalls[i].incidentNumber)
                /\ Truthy(consolidatedCalls[j].incidentNumber)) =>
                   FirstAppearance(allCallsRaw, consolidatedCalls[i].incidentNumber)
                       < FirstAppearance(allCallsRaw, consolidatedCalls[j].incidentNumber)

\* C4 witness: two rows of one incident were merged into one record.
C4_Witness ==
    /\ script = "app"
    /\ allCallsRaw = <<rowA1b, rowA1>>
    /\ Len(consolidatedCalls) = 1

\* C5: every held incident has unitCount = length of units, and no unit
\* twice in units.
C5_UnitsDistinctAndCounted ==
    \A i \in 1..Len(consolidatedCalls) :
        LET inc == consolidatedCalls[i]
        IN  /\ inc.unitCount = Len(inc.units)
            /\ \A a, b \in 1..Len(inc.units) : a # b => inc.units[a] # inc.units[b]

\* C5 witness: the same unit was reported twice and is held once.
C5_Witness ==
    /\ allCallsRaw = <<rowA1, rowA1>>
    /\ Len(consolidatedCalls) = 1
    /\ consolidatedCalls[1].units = <<rowA1.unitNumber>>

\* C6: while a manual refresh is under way (request, settle delay,
\* follow-up fetch) the refresh button is disabled.
C6_DisabledWhileRefreshing == RefreshUnderWay => refreshBtnDisabled

\* C7: a disabled refresh button is eventually enabled again.
C7_EventuallyEnabled == refreshBtnDisabled ~> ~refreshBtnDisabled

\* C7 witness: the button is enabled again after a manual refresh (the
\* status line still shows the text the click wrote).
C7_Witness == ~refreshBtnDisabled /\ statusLine = "Requesting update"

\* A 2xx response with a readable body is processed in this step.
SuccessfulSync == FetchSettles /\ ~settled'.failure

\* C8: the first successful sync fits the view exactly when the new data
\* has a record with coordinates; no other step ever fits the view.
C8_AutoFitOnlyAtFirstSync ==
    [][IF SuccessfulSync /\ ~synced
       THEN IF \E i \in 1..Len(Held') : HasCoordinates(Held'[i])
            THEN fitBoundsCalls' = fitBoundsCalls + 1
            ELSE fitBoundsCalls' = fitBoundsCalls
       ELSE fitBoundsCalls' = fitBoundsCalls]_vars

\* C9: what the filter returns is the held records that pass the division
\* predicate and the search predicate, unmodified and in their order; the
\* list count and the list show that result.
C9_FilterIsBothPredicates ==
    /\ script = "app" =>
           /\ getFilteredCalls(consolidatedCalls, divisionFilter, searchInput)
                  = Visible
           /\ listCount # null =>
                  /\ listCount = Len(Visible)
                  /\ Len(Visible) > 0 =>
                         /\ Len(callList) = Len(Visible)
                         /\ \A i \in 1..Len(Visible) :
                                callList[i].incidentNumber = Visible[i].incidentNumber
    /\ script = "legacy" =>
           legacyGetFilteredCalls(allCalls, divisionFilter) = Visible

\* C9 witness: a division and a search text are both set; some held
\* incidents pass and some do not.
C9_Witness ==
    /\ script = "app"
    /\ divisionFilter # ALL
    /\ searchInput = <<" ", "E", "L", " ">>
    /\ listCount # null
    /\ listCount > 0
    /\ listCount < Len(consolidatedCalls)

\* The incidents of the held data, whichever script holds it.
Incidents == IF script = "app" THEN consolidatedCalls ELSE consolidateData(allCalls)

\* C10: once a snapshot has been shown, the counters are incident-level:
\* total = incidents, mapped = incidents with coordinates, unmapped = the
\* rest.
C10_CountersAreIncidentLevel ==
    totalCalls # null =>
        /\ totalCalls = Len(Incidents)
        /\ mappedCalls = Len(SelectSeq(Incidents, HasCoordinates))
        /\ unmappedCalls = totalCalls - mappedCalls

\* The held incident a focusCall argument names (position, 0 when none).
Named(n) == find(consolidatedCalls, n)

\* C11: a focusCall on a number no held incident has changes nothing; on an
\* incident with coordinates it flies to the incident and opens the popup
\* of the incident's marker (when the filter left it one); on an incident
\* without coordinates it alerts and does not move the view.
C11_FocusIncident ==
    [][\A n \in FocusArgs :
          focusCall(n) =>
              IF Named(n) = 0
              THEN focused'.flyTo = <<>> /\ focused'.openPopup = <<>>
                   /\ ~focused'.alert
              ELSE IF HasCoordinates(consolidatedCalls[Named(n)])
              THEN /\ focused'.flyTo = <<consolidatedCalls[Named(n)].lat,
                                         consolidatedCalls[Named(n)].lon>>
                   /\ ~focused'.alert
                   /\ n \in DOMAIN markersByIncident =>
                          /\ focused'.openPopup # <<>>
                          /\ focused'.openPopup[1].popup = n
              ELSE /\ focused'.alert
                   /\ focused'.flyTo = <<>>]_vars

\* The <li> items of the list that stand for a record.
Items == SelectSeq(callList, LAMBDA it : it.kind = "item")

\* The list cap of the running script.
Cap == IF script = "app" THEN LIST_CAP ELSE LEGACY_LIST_CAP

ErrorStatus(s) ==
    s \in {"Connection Lost", "Unable to load active calls", "Error"}

\* A manual poll (the fetch part_000's click handler awaits) settles.
ManualPollSettles ==
    script = "legacy" /\ refreshPc = "awaitPull" /\ pending("manual")' = 0

\* C13: when a fetch fails (network error, non-2xx status, unreadable
\* body) the polling routine ends with the status line in an error state,
\* and a click handler that awaited the poll runs on to its end: the
\* button is enabled again.
C13_FailedFetchShowsError ==
    [][(FetchSettles /\ settled'.failure) =>
          /\ ErrorStatus(statusLine')
          /\ ManualPollSettles =>
                 (~refreshBtnDisabled' /\ refreshPc' = "idle")]_vars

\* C14: when a 2xx response is processed whose body has no `calls' field,
\* the fetch does not end in the failure status, and afterwards no record
\* is held, the layer and the lookup table are empty and the list is the
\* placeholder.
C14_MissingCallsIsEmpty ==
    [][(SuccessfulSync /\ missingCalls') =>
          /\ statusLine' \notin {"Connection Lost", "Unable to load active calls"}
          /\ Held' = <<>>
          /\ allCallsRaw' = <<>>
          /\ markerLayer' = <<>>
          /\ DOMAIN Table' = {}
          /\ callList' = <<placeholderItem>>]_vars

\* C14 witness: a body without `calls' has been processed after a snapshot
\* with rows, and the page shows the empty state.
C14_Witness ==
    /\ missingCalls
    /\ ~settled.failure
    /\ divisionOptions # {}
    /\ Held = <<>>
    /\ callList = <<placeholderItem>>

\* The scalar fields of a row or of an incident.
Scalars(r) ==
    [incidentNumber |-> r.incidentNumber, unitNumber |-> r.unitNumber,
     division |-> r.division, lat |-> r.lat, lon |-> r.lon,
     natureOfCall |-> r.natureOfCall, address |-> r.address,
     location |-> r.location]

\* C15: the scalar fields of every held incident, lat and lon included, are
\* those of the first row of the snapshot that carries its incidentNumber.
C15_ScalarsOfFirstRow ==
    \A i \in 1..Len(consolidatedCalls) :
        Scalars(consolidatedCalls[i]) =
            Scalars(allCallsRaw[FirstAppearance(allCallsRaw,
                                                consolidatedCalls[i].incidentNumber)])

\* C15 witness: the first row of the incident has no coordinates, a later
\* row has them, and the incident is held without coordinates.
C15_Witness ==
    /\ Len(allCallsRaw) = 2
    /\ allCallsRaw[1] = rowA1b
    /\ allCallsRaw[2] = rowA1
    /\ consolidatedCalls[1].lat = null
    /\ consolidatedCalls[1].units = <<rowA1b.unitNumber, rowA1.unitNumber>>

\* C16: between handlers, once a render has run, the markers and the list
\* show one and the same set, the current filter applied to the held
\* records: the table's keys are its members with coordinates, the list is
\* its first Cap members (the placeholder when it is empty).
C16_MarkersAndListAgree ==
    callList # <<>> =>
        /\ DOMAIN Table = VisibleMappedKeys
        /\ Len(markerLayer) =
               Len(SelectSeq(Visible, HasCoordinates))
        /\ IF Visible = <<>>
           THEN callList = <<placeholderItem>>
           ELSE /\ Len(callList) = Min(Len(Visible), Cap)
                /\ \A i \in 1..Len(callList) :
                       /\ callList[i].kind = "item"
                       /\ callList[i].incidentNumber = Visible[i].incidentNumber

\* C16 witness: after filter changes and a failed fetch, a division and a
\* search text are set, part of the held records is shown, with a marker.
C16_Witness ==
    /\ settled.failure
    /\ synced
    /\ divisionFilter # ALL
    /\ searchInput # <<>>
    /\ Len(Visible) > 0
    /\ Len(Visible) < Len(Held)
    /\ DOMAIN Table # {}

\* The user changes the division or the search text in this step (a fetch
\* that settles may reset the division, but is no user change).
FilterChange ==
    /\ ~FetchSettles
    /\ divisionFilter' # divisionFilter \/ searchInput' # searchInput

\* C17: a filter or search change issues no request and leaves the held
\* rows, the consolidated incidents, the status display and the
\* one-time-fit flag as they are.
C17_FilterChangeFrame ==
    [][FilterChange =>
          UNCHANGED <<inflight, timers, refreshPc, allCallsRaw,
                      consolidatedCalls, allCalls, statusLine, totalCalls,
                      mappedCalls, unmappedCalls, firstLoad, lastFitDone,
                      fitBoundsCalls>>]_vars

\* What the page shows for a snapshot's rows under the current filter: the
\* filter of section 4.2 applied to the snapshot's incidents (app.js) or
\* rows (part_000).
ShownOf(rows) ==
    SelectSeq(IF script = "app" THEN consolidateData(rows) ELSE rows, Passes)

\* C18: once a snapshot has been processed, the held records, the marker
\* keys and the list are those of the last 2xx snapshot under the current
\* filter, whatever snapshots, failures and filter changes came before.
C18_ViewOfLastSnapshot ==
    synced =>
        /\ Held = (IF script = "app" THEN consolidateData(lastSnapshot)
                                     ELSE lastSnapshot)
        /\ DOMAIN Table =
               {ShownOf(lastSnapshot)[i].incidentNumber :
                   i \in {j \in 1..Len(ShownOf(lastSnapshot)) :
                              HasCoordinates(ShownOf(lastSnapshot)[j])}}
        /\ Items =
               [i \in 1..Min(Len(ShownOf(lastSnapshot)), Cap) |->
                   [kind |-> "item",
                    incidentNumber |-> ShownOf(lastSnapshot)[i].incidentNumber,
                    mapped |-> callList[i].mapped]]

\* The no-op filter: every division, no search text.
NoOpFilter == divisionFilter = ALL /\ trim(toLowerCase(searchInput)) = <<>>

\* The marker test: the incident got a marker in the last sync.
HasMarker(c) == c.incidentNumber \in DOMAIN markersByIncident

\* C19: in app.js, under the no-op filter and once a snapshot is shown, an
\* incident has a marker exactly when its list item shows the mapped icon,
\* the mapped counter counts exactly the incidents with a marker, and
\* focusCall flies to an incident (rather than alerting) exactly when it has
\* a marker.
C19_MappedTestsAgree ==
    /\ [](script = "app" /\ NoOpFilter /\ totalCalls # null =>
             /\ \A i \in 1..Len(Items) :
                    Items[i].mapped <=> HasMarker(consolidatedCalls[i])
             /\ mappedCalls = Len(SelectSeq(consolidatedCalls, HasMarker)))
    /\ [][\A n \in FocusArgs :
              (NoOpFilter /\ Named(n) # 0 /\ focusCall(n)) =>
                  (~focused'.alert <=> HasMarker(consolidatedCalls[Named(n)]))]_vars

\* C20: the markers of the layer and the entries of the lookup table are in
\* one-to-one correspondence: every entry is a marker of the layer, no two
\* entries are the same marker, and every marker of the layer is some
\* entry's.
C20_LayerMatchesTable ==
    /\ \A k \in DOMAIN Table : Table[k] \in 1..Len(markerLayer)
    /\ \A k1, k2 \in DOMAIN Table : Table[k1] = Table[k2] => k1 = k2
    /\ \A i \in 1..Len(markerLayer) : \E k \in DOMAIN Table : Table[k] = i

\* The distinct non-empty division values of the held records.
HeldDivisions ==
    {Held[i].division :
        i \in {j \in 1..Len(Held) :
                  Held[j].division # undefined /\ Held[j].division # <<>>}}

\* C21: after every successful fetch the filter control offers "all" and
\* exactly the distinct non-empty divisions of the data then held (so a
\* division that a later snapshot brings is offered), and the selected
\* division is "all" or one of them.
C21_DivisionOptionsFollowData ==
    [][SuccessfulSync =>
          /\ divisionOptions' = HeldDivisions'
          /\ divisionFilter' \in HeldDivisions' \cup {ALL}]_vars

====
